---- MODULE Spec2Model ----
(***************************************************************************)
(* Model of the two filter plugins of deslicer.splunk:                     *)
(*   analyze_splunk_changes  (plugins/filter/splunk_config_changes.py)     *)
(*   splunk_conf_flatten     (plugins/filter/splunk_conf_flatten.py)       *)
(*                                                                         *)
(* A Python dict is a function whose DOMAIN is the dict's key set, so a    *)
(* missing key is a key outside the DOMAIN.  A path string is a sequence   *)
(* of tokens: each token is a literal piece of text, and the tokens are    *)
(* chosen so that no keyword the classifier looks for can arise across a   *)
(* token boundary.  Hence "keyword in path" is "some token is keyword" and *)
(* "the text after /etc/ starts with keyword" is "the next token is        *)
(* keyword".  Paths are single-line, so the regex '.' matches every        *)
(* character of them.                                                      *)
(***************************************************************************)
EXTENDS Naturals, Sequences, FiniteSets, TLC

VARIABLES
    \* analyze_splunk_changes: arguments
    results, rolling_restart_pending, splunkd_restart_pending,
    force_splunkd_restart, force_bundle_push,
    \* analyze_splunk_changes: locals, position, outcome
    actions, idx, pc, ret,
    \* splunk_conf_flatten: argument, locals, position, outcome
    conf_groups, flattened_data, gidx, fpc, fret

cvars == <<results, rolling_restart_pending, splunkd_restart_pending,
           force_splunkd_restart, force_bundle_push, actions, idx, pc, ret>>
fvars == <<conf_groups, flattened_data, gidx, fpc, fret>>
vars == <<cvars, fvars>>

----------------------------------------------------------------------------
\* Bounds of the model.

\* longest list of change records passed to analyze_splunk_changes
MaxRecords == 2
\* longest path, in tokens, of the single record of a one-record call
MaxPathLen == 3
\* most nodes (groups, sections and options together) of a flatten input
MaxNodes == 6

----------------------------------------------------------------------------
\* Path text.

ETC == "/etc/"
DEPLOYMENT_APPS == "deployment-apps"
SHCLUSTER == "shcluster"
MASTER_APPS == "master-apps"
MANAGER_APPS == "manager-apps"
\* any other text (no '/etc/', no keyword, no prefix or suffix of one)
FILLER == "local"

Tokens == {ETC, DEPLOYMENT_APPS, SHCLUSTER, MASTER_APPS, MANAGER_APPS, FILLER}

\* the alternatives of the negative lookahead (?!...)
Excluded == {DEPLOYMENT_APPS, SHCLUSTER, MASTER_APPS, MANAGER_APPS}

RECURSIVE PathsUpTo(_)
PathsUpTo(n) ==
    IF n = 0 THEN {<<>>}
    ELSE LET shorter == PathsUpTo(n - 1)
         IN  shorter \cup {Append(p, t) : p \in {q \in shorter : Len(q) = n - 1},
                                           t \in Tokens}

\* 'keyword' in path
Contains(path, keyword) == \E k \in 1..Len(path) : path[k] = keyword

\* bool(re.search('.*/etc/(?!deployment-apps|shcluster|master-apps|manager-apps).*?$', path))
\* search tries every start; '.*' takes any prefix; '/etc/' is literal; the
\* lookahead rejects this occurrence when the text after it starts with one
\* of the four names; '.*?$' takes the rest of the line.
ReSearchEtc(path) ==
    \E k \in 1..Len(path) :
        /\ path[k] = ETC
        /\ ~(k < Len(path) /\ path[k + 1] \in Excluded)

----------------------------------------------------------------------------
\* analyze_splunk_changes

BaseKeys == {"splunkd_restart_pending", "deploymentserver_reload",
             "deployer_push", "cluster_manager_push"}

NoDict == [k \in {} |-> FALSE]

\* d[key] = value on a dict (adds the key when it is missing)
DictSet(d, key, value) ==
    [k \in DOMAIN d \cup {key} |-> IF k = key THEN value ELSE d[k]]

\* item.get('path', '/etc/'): a missing path read as a local configuration path
GetPathDefaultEtc(item) == IF "path" \in DOMAIN item THEN item["path"] ELSE <<ETC>>

\* item.get('path', '')
GetPath(item) == IF "path" \in DOMAIN item THEN item["path"] ELSE <<>>

\* the dict built before the loop, with deployer_push: False
InitialActionsNoForcePush(rolling, pending, force_restart, force_push) ==
    LET base == [k \in BaseKeys |->
                    IF k = "splunkd_restart_pending" THEN (force_restart \/ pending)
                    ELSE FALSE]
    IN  IF rolling THEN DictSet(base, "splunkd_restart", TRUE) ELSE base

\* lines 116-124: the dict built before the loop
InitialActions(rolling, pending, force_restart, force_push) ==
    LET base == [k \in BaseKeys |->
                    CASE k = "splunkd_restart_pending" -> (force_restart \/ pending)
                      [] k = "deploymentserver_reload" -> FALSE
                      [] k = "deployer_push"           -> force_push
                      [] k = "cluster_manager_push"    -> FALSE]
    IN  IF rolling THEN DictSet(base, "splunkd_restart", TRUE) ELSE base

\* item['changed'] raises KeyError when the key is missing
ChangedRaises(item) == "changed" \notin DOMAIN item

\* the loop body with 'if' in place of each 'elif'
LoopBodyIndependentIfs(acts, item) ==
    IF item["changed"]
    THEN LET path == GetPath(item)
             a1 == IF ReSearchEtc(path)
                   THEN DictSet(acts, "splunkd_restart_pending", TRUE) ELSE acts
             a2 == IF Contains(path, DEPLOYMENT_APPS)
                   THEN DictSet(a1, "deploymentserver_reload", TRUE) ELSE a1
             a3 == IF Contains(path, SHCLUSTER)
                   THEN DictSet(a2, "deployer_push", TRUE) ELSE a2
         IN  IF Contains(path, MASTER_APPS) \/ Contains(path, MANAGER_APPS)
             THEN DictSet(a3, "cluster_manager_push", TRUE) ELSE a3
    ELSE acts

\* the loop body writing actions['splunkd_restart'] in the first branch
LoopBodyWrongKey(acts, item) ==
    IF item["changed"]
    THEN LET path == GetPath(item)
         IN  IF ReSearchEtc(path)
             THEN DictSet(acts, "splunkd_restart", TRUE)
             ELSE IF Contains(path, DEPLOYMENT_APPS)
             THEN DictSet(acts, "deploymentserver_reload", TRUE)
             ELSE IF Contains(path, SHCLUSTER)
             THEN DictSet(acts, "deployer_push", TRUE)
             ELSE IF Contains(path, MASTER_APPS) \/ Contains(path, MANAGER_APPS)
             THEN DictSet(acts, "cluster_manager_push", TRUE)
             ELSE acts
    ELSE acts

\* the loop body assigning each flag the outcome of its test
LoopBodyAssigns(acts, item) ==
    IF item["changed"]
    THEN LET path == GetPath(item)
             r1 == ReSearchEtc(path)
             r2 == ~r1 /\ Contains(path, DEPLOYMENT_APPS)
             r3 == ~r1 /\ ~r2 /\ Contains(path, SHCLUSTER)
             r4 == ~r1 /\ ~r2 /\ ~r3
                   /\ (Contains(path, MASTER_APPS) \/ Contains(path, MANAGER_APPS))
         IN  DictSet(DictSet(DictSet(DictSet(acts,
                 "splunkd_restart_pending", r1),
                 "deploymentserver_reload", r2),
                 "deployer_push", r3),
                 "cluster_manager_push", r4)
    ELSE acts

\* the loop body without the test of item['changed']
LoopBodyAlwaysInspects(acts, item) ==
    LET path == GetPath(item)
    IN  IF ReSearchEtc(path)
        THEN DictSet(acts, "splunkd_restart_pending", TRUE)
        ELSE IF Contains(path, DEPLOYMENT_APPS)
        THEN DictSet(acts, "deploymentserver_reload", TRUE)
        ELSE IF Contains(path, SHCLUSTER)
        THEN DictSet(acts, "deployer_push", TRUE)
        ELSE IF Contains(path, MASTER_APPS) \/ Contains(path, MANAGER_APPS)
        THEN DictSet(acts, "cluster_manager_push", TRUE)
        ELSE acts

\* lines 127-136: the body of the loop for an item that has 'changed'
LoopBody(acts, item) ==
    IF item["changed"]
    THEN LET path == GetPath(item)
         IN  IF ReSearchEtc(path)
             THEN DictSet(acts, "splunkd_restart_pending", TRUE)
             ELSE IF Contains(path, DEPLOYMENT_APPS)
             THEN DictSet(acts, "deploymentserver_reload", TRUE)
             ELSE IF Contains(path, SHCLUSTER)
             THEN DictSet(acts, "deployer_push", TRUE)
             ELSE IF Contains(path, MASTER_APPS) \/ Contains(path, MANAGER_APPS)
             THEN DictSet(acts, "cluster_manager_push", TRUE)
             ELSE acts
    ELSE acts

\* the whole loop, lines 126-138, from item k on: what the call returns
\* (a one-element sequence) or <<>> when it raises
RECURSIVE RunLoop(_, _, _)
RunLoop(acts, items, k) ==
    IF k > Len(items) THEN <<acts>>
    ELSE IF ChangedRaises(items[k]) THEN <<>>
    ELSE RunLoop(LoopBody(acts, items[k]), items, k + 1)

\* change records: 'changed' is True, False or missing; 'path' a path or missing
ItemsOver(paths) ==
    LET changedPart == {[k \in {} |-> FALSE]} \cup {[changed |-> b] : b \in BOOLEAN}
    IN  changedPart \cup {DictSet(c, "path", p) : c \in changedPart, p \in paths}

RECURSIVE ListsUpTo(_, _)
ListsUpTo(S, n) ==
    IF n = 0 THEN {<<>>}
    ELSE LET shorter == ListsUpTo(S, n - 1)
         IN  shorter \cup {Append(l, x) : l \in {q \in shorter : Len(q) = n - 1},
                                           x \in S}

\* paths of the records of a many-record call: one of each kind the loop
\* tells apart, '' and a path with none of the texts it looks for among them
ListPaths ==
    {<<>>,
     <<FILLER>>,
     <<FILLER, ETC, FILLER>>,
     <<FILLER, ETC, DEPLOYMENT_APPS>>,
     <<FILLER, ETC, SHCLUSTER>>,
     <<FILLER, ETC, MASTER_APPS>>,
     <<FILLER, ETC, MANAGER_APPS>>,
     <<ETC, DEPLOYMENT_APPS, ETC>>}

FlattenIdle ==
    /\ conf_groups = <<>>
    /\ flattened_data = <<>>
    /\ gidx = 0
    /\ fpc = "idle"
    /\ fret = <<>>

ClassifyArgs(lists) ==
    /\ results \in lists
    /\ rolling_restart_pending \in BOOLEAN
    /\ splunkd_restart_pending \in BOOLEAN
    /\ force_splunkd_restart \in BOOLEAN
    /\ force_bundle_push \in BOOLEAN
    /\ actions = NoDict
    /\ idx = 0
    /\ pc = "call"
    /\ ret = <<>>
    /\ FlattenIdle

\* a call with a list of records
Init == ClassifyArgs(ListsUpTo(ItemsOver(ListPaths), MaxRecords))

\* a call with one record, of any path
InitPath == ClassifyArgs({<<x>> : x \in ItemsOver(PathsUpTo(MaxPathLen))})

\* lines 116-124
BuildActions ==
    /\ pc = "call"
    /\ actions' = InitialActions(rolling_restart_pending, splunkd_restart_pending,
                                 force_splunkd_restart, force_bundle_push)
    /\ idx' = 1
    /\ pc' = "loop"
    /\ UNCHANGED <<results, rolling_restart_pending, splunkd_restart_pending,
                   force_splunkd_restart, force_bundle_push, ret>>
    /\ UNCHANGED fvars

\* lines 126-136, one iteration
LoopItem ==
    /\ pc = "loop"
    /\ idx <= Len(results)
    /\ ~ChangedRaises(results[idx])
    /\ actions' = LoopBody(actions, results[idx])
    /\ idx' = idx + 1
    /\ UNCHANGED <<results, rolling_restart_pending, splunkd_restart_pending,
                   force_splunkd_restart, force_bundle_push, pc, ret>>
    /\ UNCHANGED fvars

\* the KeyError swallowed and the record skipped
LoopKeyErrorSkips ==
    /\ pc = "loop"
    /\ idx <= Len(results)
    /\ ChangedRaises(results[idx])
    /\ idx' = idx + 1
    /\ UNCHANGED <<results, rolling_restart_pending, splunkd_restart_pending,
                   force_splunkd_restart, force_bundle_push, actions, pc, ret>>
    /\ UNCHANGED fvars

\* line 127: KeyError, not caught, leaves the function
LoopKeyError ==
    /\ pc = "loop"
    /\ idx <= Len(results)
    /\ ChangedRaises(results[idx])
    /\ pc' = "error"
    /\ UNCHANGED <<results, rolling_restart_pending, splunkd_restart_pending,
                   force_splunkd_restart, force_bundle_push, actions, idx, ret>>
    /\ UNCHANGED fvars

\* line 138
ReturnActions ==
    /\ pc = "loop"
    /\ idx > Len(results)
    /\ ret' = <<actions>>
    /\ pc' = "done"
    /\ UNCHANGED <<results, rolling_restart_pending, splunkd_restart_pending,
                   force_splunkd_restart, force_bundle_push, actions, idx>>
    /\ UNCHANGED fvars

----------------------------------------------------------------------------
\* splunk_conf_flatten

\* Python's None as the value of an output field
NONE == "<None>"

\* d.get(key) and d.get(key, default)
DictGet(d, key, default) == IF key \in DOMAIN d THEN d[key] ELSE default

\* filepath + '/' + filename raises TypeError when either is None
JoinRaises(group) == "filepath" \notin DOMAIN group \/ "filename" \notin DOMAIN group

\* lines 101-108: the dict appended for one option
FlatEntry(group, section_name, option) ==
    [path    |-> group["filepath"] \o "/" \o group["filename"],
     section |-> section_name,
     option  |-> DictGet(option, "option", NONE),
     value   |-> DictGet(option, "value", NONE),
     state   |-> DictGet(option, "state", "present"),
     comment |-> DictGet(option, "comment", "")]

\* no section skipped
SectionKeptAlways(section_name) == TRUE

\* line 99
SectionKept(section_name) == section_name # ""

\* lines 100-108: the loop over a section's options, from option k on;
\* out is [raised, data], data being flattened_data so far
RECURSIVE OptionsLoop(_, _, _, _, _)
OptionsLoop(out, group, section_name, options, k) ==
    IF out.raised \/ k > Len(options) THEN out
    ELSE IF JoinRaises(group) THEN [raised |-> TRUE, data |-> out.data]
    ELSE OptionsLoop([raised |-> FALSE,
                      data |-> Append(out.data, FlatEntry(group, section_name, options[k]))],
                     group, section_name, options, k + 1)

\* lines 97-108: the loop over a group's sections, from section k on
RECURSIVE SectionsLoop(_, _, _, _)
SectionsLoop(out, group, sections, k) ==
    IF out.raised \/ k > Len(sections) THEN out
    ELSE LET section == sections[k]
             section_name == DictGet(section, "section", NONE)
         IN  SectionsLoop(IF SectionKept(section_name)
                          THEN OptionsLoop(out, group, section_name,
                                           DictGet(section, "options", <<>>), 1)
                          ELSE out,
                          group, sections, k + 1)

\* lines 95-108: the body of the loop over groups
GroupBody(data, group) ==
    SectionsLoop([raised |-> FALSE, data |-> data], group,
                 DictGet(group, "sections", <<>>), 1)

\* Inputs: every list of groups with at most n nodes, a node being a group,
\* a section or an option.
FilePath == "/opt/splunk/etc/system/local"
FileName == "server.conf"
SectionNames == {"", "general"}
Options == {[option |-> "serverName", value |-> "splunk01",
             state |-> "absent", comment |-> "managed"],
            [option |-> "pass4SymmKey", value |-> "$7$encrypted"],
            [comment |-> "placeholder"]}

RECURSIVE OptionListsOf(_)
OptionListsOf(n) ==
    IF n = 0 THEN {<<>>}
    ELSE {<<o>> \o r : o \in Options, r \in OptionListsOf(n - 1)}

\* the sections of n nodes: the section and n - 1 options
SectionsOf(n) ==
    {[section |-> nm, options |-> ol] : nm \in SectionNames, ol \in OptionListsOf(n - 1)}

\* table[m + 1] being every list of sections of m nodes, for m in
\* 0..(n - 1), the table with the lists of n nodes added
WithSectionLists(table, n) ==
    Append(table, UNION {{<<x>> \o r : x \in SectionsOf(w), r \in table[n - w + 1]} :
                         w \in 1..n})

RECURSIVE SectionListTable(_)
SectionListTable(n) ==
    IF n = 0 THEN <<{<<>>}>>
    ELSE WithSectionLists(SectionListTable(n - 1), n)

SectionLists == SectionListTable(MaxNodes - 1)

\* the groups of n nodes: the group and n - 1 nodes of sections; a group
\* has 'filename', 'sections' or not, 'filepath' or not
GroupsOf(n) ==
    (IF n = 1 THEN {[filename |-> FileName],
                    [filepath |-> FilePath, filename |-> FileName]}
     ELSE {})
    \cup {[filename |-> FileName, sections |-> sl] : sl \in SectionLists[n]}
    \cup {[filepath |-> FilePath, filename |-> FileName, sections |-> sl] :
            sl \in SectionLists[n]}

\* the same table for lists of groups
WithGroupLists(table, n) ==
    Append(table, UNION {{<<x>> \o r : x \in GroupsOf(w), r \in table[n - w + 1]} :
                         w \in 1..n})

RECURSIVE GroupListTable(_)
GroupListTable(n) ==
    IF n = 0 THEN <<{<<>>}>>
    ELSE WithGroupLists(GroupListTable(n - 1), n)

GroupLists == GroupListTable(MaxNodes - 1)

\* conf_groups is a list of groups of at most MaxNodes nodes
ConfGroupsArg ==
    \/ conf_groups = <<>>
    \/ \E w \in 1..MaxNodes : \E m \in 0..(MaxNodes - w) :
          \E g \in GroupsOf(w), rest \in GroupLists[m + 1] :
              conf_groups = <<g>> \o rest

ClassifyIdle ==
    /\ results = <<>>
    /\ rolling_restart_pending = FALSE
    /\ splunkd_restart_pending = FALSE
    /\ force_splunkd_restart = FALSE
    /\ force_bundle_push = FALSE
    /\ actions = NoDict
    /\ idx = 0
    /\ pc = "idle"
    /\ ret = <<>>

\* line 93 done: a call of splunk_conf_flatten entering its loop
InitFlatten ==
    /\ ConfGroupsArg
    /\ flattened_data = <<>>
    /\ gidx = 1
    /\ fpc = "loop"
    /\ fret = <<>>
    /\ ClassifyIdle

\* lines 94-108, one group, no exception
FlattenGroup ==
    /\ fpc = "loop"
    /\ gidx <= Len(conf_groups)
    /\ LET out == GroupBody(flattened_data, conf_groups[gidx])
       IN  /\ ~out.raised
           /\ flattened_data' = out.data
    /\ gidx' = gidx + 1
    /\ UNCHANGED <<conf_groups, fpc, fret>>
    /\ UNCHANGED cvars

\* the except clause returning what was flattened so far
FlattenRaiseReturnsPartial ==
    /\ fpc = "loop"
    /\ gidx <= Len(conf_groups)
    /\ LET out == GroupBody(flattened_data, conf_groups[gidx])
       IN  /\ out.raised
           /\ flattened_data' = out.data
           /\ fret' = <<out.data>>
    /\ fpc' = "done"
    /\ UNCHANGED <<conf_groups, gidx>>
    /\ UNCHANGED cvars

\* lines 110-111: an exception in the body is caught and AnsibleFilterError
\* raised; nothing is returned
FlattenRaise ==
    /\ fpc = "loop"
    /\ gidx <= Len(conf_groups)
    /\ LET out == GroupBody(flattened_data, conf_groups[gidx])
       IN  /\ out.raised
           /\ flattened_data' = out.data
    /\ fpc' = "error"
    /\ UNCHANGED <<conf_groups, gidx, fret>>
    /\ UNCHANGED cvars

\* line 109
FlattenReturn ==
    /\ fpc = "loop"
    /\ gidx > Len(conf_groups)
    /\ fret' = <<flattened_data>>
    /\ fpc' = "done"
    /\ UNCHANGED <<conf_groups, flattened_data, gidx>>
    /\ UNCHANGED cvars

NextFlatten == FlattenGroup \/ FlattenRaise \/ FlattenReturn

SpecFlatten == InitFlatten /\ [][NextFlatten]_vars

----------------------------------------------------------------------------
Next == BuildActions \/ LoopItem \/ LoopKeyError \/ ReturnActions

Spec == Init /\ [][Next]_vars
SpecPath == InitPath /\ [][Next]_vars

----------------------------------------------------------------------------
\* Properties of analyze_splunk_changes.

\* the dict the call starts from
Seed == InitialActions(rolling_restart_pending, splunkd_restart_pending,
                       force_splunkd_restart, force_bundle_push)

\* the call was made with one record, changed and with a path
OneChangedRecord ==
    /\ Len(results) = 1
    /\ DOMAIN results[1] = {"changed", "path"}
    /\ results[1]["changed"]

\* The four rules as the specification words them.
RuleMatches(n, p) ==
    CASE n = 1 -> \E k \in 1..Len(p) :
                      p[k] = "/etc/" /\ (k = Len(p) \/ p[k + 1] \notin
                          {"deployment-apps", "shcluster", "master-apps", "manager-apps"})
      [] n = 2 -> \E k \in 1..Len(p) : p[k] = "deployment-apps"
      [] n = 3 -> \E k \in 1..Len(p) : p[k] = "shcluster"
      [] n = 4 -> \E k \in 1..Len(p) : p[k] \in {"master-apps", "manager-apps"}

RuleFlag(n) ==
    CASE n = 1 -> "splunkd_restart_pending"
      [] n = 2 -> "deploymentserver_reload"
      [] n = 3 -> "deployer_push"
      [] n = 4 -> "cluster_manager_push"

\* the number of the first rule the path matches, 0 when it matches none
FirstRule(p) ==
    IF \E n \in 1..4 : RuleMatches(n, p)
    THEN CHOOSE n \in 1..4 :
            RuleMatches(n, p) /\ \A m \in 1..4 : (m < n => ~RuleMatches(m, p))
    ELSE 0

\* C1: a single changed record is classified by the first rule its path
\* matches: the result is the seed with that rule's flag set, so at most one
\* flag turns true, and none when no rule matches.
C1_FirstMatchingRule ==
    (pc = "done" /\ OneChangedRecord) =>
        LET p == results[1]["path"]
            n == FirstRule(p)
        IN  /\ DOMAIN ret[1] = DOMAIN Seed
            /\ \A k \in DOMAIN Seed :
                  ret[1][k] = (Seed[k] \/ (n # 0 /\ k = RuleFlag(n)))
            /\ Cardinality({k \in BaseKeys : ret[1][k] /\ ~Seed[k]}) <= 1
            /\ (n = 0 => ret[1] = Seed)

\* a path matching rules 2 and 3 set only the flag of rule 2
C1_Witness ==
    /\ pc = "done"
    /\ OneChangedRecord
    /\ results[1]["path"] = <<FILLER, SHCLUSTER, DEPLOYMENT_APPS>>
    /\ ~force_bundle_push
    /\ ret[1]["deploymentserver_reload"]
    /\ ~ret[1]["deployer_push"]

\* the path lies under '/etc/deployment-apps': its first '/etc/' is followed
\* by 'deployment-apps'
UnderDeploymentApps(p) ==
    \E k \in 1..(Len(p) - 1) :
        /\ p[k] = ETC
        /\ p[k + 1] = DEPLOYMENT_APPS
        /\ \A j \in 1..(k - 1) : p[j] # ETC

\* C2: a single changed record whose path lies under '/etc/deployment-apps'
\* sets deploymentserver_reload and leaves the other three flags at their
\* initial values, whatever else the path holds.
C2_DeploymentAppsOnly ==
    (pc = "done" /\ OneChangedRecord /\ UnderDeploymentApps(results[1]["path"])) =>
        ret[1] = DictSet(Seed, "deploymentserver_reload", TRUE)

\* the result of an empty call, the conditional entry being named key
EmptyCallResult(key) ==
    LET base == [splunkd_restart_pending |-> (force_splunkd_restart \/ splunkd_restart_pending),
                 deploymentserver_reload |-> FALSE,
                 deployer_push |-> force_bundle_push,
                 cluster_manager_push |-> FALSE]
    IN  IF rolling_restart_pending
        THEN [k \in DOMAIN base \cup {key} |-> IF k = key THEN TRUE ELSE base[k]]
        ELSE base

\* C3 as stated: with no records the result is the four seeded entries plus
\* 'splunk_restart: true' iff rolling_restart_pending.
C3_EmptyCallSplunkRestart ==
    (pc = "done" /\ results = <<>>) => ret = <<EmptyCallResult("splunk_restart")>>

\* C3 amended: with no records the result is the four seeded entries plus
\* 'splunkd_restart: true' iff rolling_restart_pending.
C3_EmptyCall ==
    (pc = "done" /\ results = <<>>) => ret = <<EmptyCallResult("splunkd_restart")>>

C3_Witness ==
    /\ pc = "done"
    /\ results = <<>>
    /\ rolling_restart_pending
    /\ force_bundle_push
    /\ ret[1]["deployer_push"]
    /\ ret[1]["splunkd_restart"]

\* C4: from the moment the dict is built, its key set is the four base keys,
\* plus splunkd_restart (true) exactly when rolling_restart_pending; the
\* returned dict has that key set.
C4_KeySet ==
    LET keys == BaseKeys \cup (IF rolling_restart_pending THEN {"splunkd_restart"} ELSE {})
    IN  /\ pc \in {"loop", "done", "error"} =>
              /\ DOMAIN actions = keys
              /\ rolling_restart_pending => actions["splunkd_restart"]
        /\ pc = "done" =>
              /\ DOMAIN ret[1] = keys
              /\ rolling_restart_pending => ret[1]["splunkd_restart"]

C4_Witness ==
    /\ pc = "done"
    /\ Len(results) = 2
    /\ \A k \in 1..2 : DOMAIN results[k] = {"changed", "path"} /\ results[k]["changed"]
    /\ results[1]["path"] = <<FILLER, ETC, FILLER>>
    /\ ~rolling_restart_pending
    /\ DOMAIN ret[1] = BaseKeys

\* the records without 'changed'
MissingChanged == {k \in 1..Len(results) : "changed" \notin DOMAIN results[k]}

\* C5: when some record lacks 'changed' the call never returns: it can only
\* advance to the first such record and raise there, and nothing is returned.
C5_MissingChangedFaults ==
    (MissingChanged # {}) =>
        /\ pc \in {"call", "loop", "error"}
        /\ ret = <<>>
        /\ pc \in {"loop", "error"} => \A k \in MissingChanged : idx <= k
        /\ pc = "error" => idx \in MissingChanged

C5_Witness ==
    /\ pc = "error"
    /\ Len(results) = 2
    /\ DOMAIN results[1] = {"changed", "path"} /\ results[1]["changed"]
    /\ DOMAIN results[2] = {"path"}
    /\ idx = 2
    /\ ret = <<>>

\* a record that is changed and has no 'path'
ChangedNoPath(item) == DOMAIN item = {"changed"} /\ item["changed"]

\* C6 as stated: a changed record without 'path' makes the call raise, so a
\* call that returns had no such record.
C6_MissingPathFaults ==
    pc = "done" => \A k \in 1..Len(results) : ~ChangedNoPath(results[k])

\* C6 amended: a changed record without 'path' is no fault: its path reads
\* as '', which matches no rule, so it sets no flag; the call raises only at
\* a record without 'changed'.
C6_MissingPathDefaults ==
    /\ pc = "error" => "changed" \notin DOMAIN results[idx]
    /\ (pc \in {"loop", "done"} /\ \A k \in 1..(idx - 1) : ChangedNoPath(results[k]))
          => actions = Seed
    /\ (pc = "done" /\ \A k \in 1..Len(results) : ChangedNoPath(results[k]))
          => ret = <<Seed>>

C6_Witness ==
    /\ pc = "done"
    /\ Len(results) = 2
    /\ ChangedNoPath(results[1])
    /\ ChangedNoPath(results[2])
    /\ ret = <<Seed>>
    /\ ~ret[1]["splunkd_restart_pending"]

\* the flag is seeded true by the arguments
Seeded(flag) ==
    \/ flag = "splunkd_restart_pending" /\ (force_splunkd_restart \/ splunkd_restart_pending)
    \/ flag = "deployer_push" /\ force_bundle_push

\* some changed record is classified to the flag
ClassifiedTo(flag) ==
    \E k \in 1..Len(results) :
        /\ "changed" \in DOMAIN results[k]
        /\ results[k]["changed"]
        /\ LET n == FirstRule(IF "path" \in DOMAIN results[k]
                              THEN results[k]["path"] ELSE <<>>)
           IN  n # 0 /\ RuleFlag(n) = flag

\* no step turns a true entry of the dict false or removes it
FlagsStayTrue ==
    \A k \in DOMAIN actions : actions[k] => (k \in DOMAIN actions' /\ actions'[k])

\* C7: a flag that is true stays true at every later step, and a flag of the
\* result is true exactly when it was seeded true or some changed record was
\* classified to it.
C7_MonotonicOr ==
    /\ [][FlagsStayTrue]_vars
    /\ [](pc = "done" =>
            \A flag \in BaseKeys : ret[1][flag] = (Seeded(flag) \/ ClassifiedTo(flag)))

\* a seeded flag survived a record of another class and a record of no class
C7_Witness ==
    /\ pc = "done"
    /\ force_bundle_push
    /\ ~force_splunkd_restart /\ ~splunkd_restart_pending
    /\ results = <<[changed |-> TRUE, path |-> <<FILLER, ETC, FILLER>>],
                   [changed |-> TRUE, path |-> <<FILLER>>]>>
    /\ ret[1]["deployer_push"]
    /\ ret[1]["splunkd_restart_pending"]

NotUnchanged(item) == ~("changed" \in DOMAIN item /\ item["changed"] = FALSE)

\* C8: the outcome of a call (the dict returned, or the error) is the outcome
\* of the call on the list without its changed = false records, with or
\* without 'path'; a list of such records only returns the initial dict.
C8_UnchangedIgnored ==
    pc \in {"done", "error"} =>
        /\ ret = RunLoop(Seed, SelectSeq(results, NotUnchanged), 1)
        /\ (\A k \in 1..Len(results) : ~NotUnchanged(results[k])) => ret = <<Seed>>

C8_Witness ==
    /\ pc = "done"
    /\ results = <<[changed |-> FALSE],
                   [changed |-> FALSE, path |-> <<FILLER, ETC, FILLER>>]>>
    /\ ~force_splunkd_restart /\ ~splunkd_restart_pending
    /\ ~ret[1]["splunkd_restart_pending"]

----------------------------------------------------------------------------
\* Properties of splunk_conf_flatten.

SectionsAt(g) ==
    IF "sections" \in DOMAIN conf_groups[g] THEN conf_groups[g]["sections"] ELSE <<>>

\* the places <<group, section, option>> of the options of the sections
\* whose name is not ''
Settings ==
    {t \in (1..Len(conf_groups)) \X (1..MaxNodes) \X (1..MaxNodes) :
        /\ t[2] <= Len(SectionsAt(t[1]))
        /\ SectionsAt(t[1])[t[2]]["section"] # ""
        /\ t[3] <= Len(SectionsAt(t[1])[t[2]]["options"])}

\* depth-first order: group, then section, then option
Precedes(u, t) ==
    \/ u[1] < t[1]
    \/ u[1] = t[1] /\ u[2] < t[2]
    \/ u[1] = t[1] /\ u[2] = t[2] /\ u[3] < t[3]

Position(t) == Cardinality({u \in Settings : Precedes(u, t)}) + 1

\* C9: the list returned has one record per option of every section not
\* named '', in depth-first input order, each with the path
\* filepath + '/' + filename of its group, the name of its section and the
\* option and value of its option (None when the option has none).
C9_OnePerOptionInOrder ==
    fpc = "done" =>
        /\ Len(fret[1]) = Cardinality(Settings)
        /\ \A t \in Settings :
              LET group == conf_groups[t[1]]
                  section == SectionsAt(t[1])[t[2]]
                  option == section["options"][t[3]]
                  entry == fret[1][Position(t)]
              IN  /\ entry["path"] = group["filepath"] \o "/" \o group["filename"]
                  /\ entry["section"] = section["section"]
                  /\ entry["option"] = (IF "option" \in DOMAIN option
                                         THEN option["option"] ELSE "<None>")
                  /\ entry["value"] = (IF "value" \in DOMAIN option
                                        THEN option["value"] ELSE "<None>")

\* a section named '' with an option is followed by a section with two
\* options, which come out in their order
C9_Witness ==
    /\ fpc = "done"
    /\ Len(conf_groups) = 1
    /\ Len(SectionsAt(1)) = 2
    /\ SectionsAt(1)[1]["section"] = ""
    /\ Len(SectionsAt(1)[1]["options"]) = 1
    /\ Len(fret[1]) = 2
    /\ fret[1][1]["option"] = "serverName"
    /\ fret[1][2]["option"] = "pass4SymmKey"
    /\ fret[1][2]["state"] = "present"

\* the group makes the traversal raise: it has an option to emit and no
\* filepath or no filename to build the path from
Faulty(g) ==
    /\ {"filepath", "filename"} \ DOMAIN conf_groups[g] # {}
    /\ \E s \in 1..Len(SectionsAt(g)) :
          /\ SectionsAt(g)[s]["section"] # ""
          /\ Len(SectionsAt(g)[s]["options"]) > 0

FaultyGroups == {g \in 1..Len(conf_groups) : Faulty(g)}

\* C10 as stated: a group without 'sections' is a fault, so a call that
\* returns had 'sections' in every group.
C10_MissingSectionsFaults ==
    fpc = "done" => \A g \in 1..Len(conf_groups) : "sections" \in DOMAIN conf_groups[g]

\* C10 amended: a group without 'sections' is no fault (it is read as having
\* no sections).  A fault (a group with an option to emit and no filepath or
\* filename) ends the call with the error and nothing returned, whatever
\* earlier groups flattened; without a fault the call returns the list it
\* built.
C10_AllOrNothing ==
    /\ FaultyGroups # {} =>
          /\ fpc \in {"loop", "error"}
          /\ fret = <<>>
          /\ \A g \in FaultyGroups : gidx <= g
    /\ fpc = "error" => (gidx \in FaultyGroups /\ fret = <<>>)
    /\ fpc = "done" => (FaultyGroups = {} /\ fret = <<flattened_data>>)

\* the second group raised after the first had flattened a setting
C10_Witness ==
    /\ fpc = "error"
    /\ gidx = 2
    /\ Len(flattened_data) = 1
    /\ "sections" \in DOMAIN conf_groups[2]
    /\ fret = <<>>

====
